---- MODULE Spec2Model ----
(***************************************************************************)
(* A model of the `scores` xarray accessor (ScoresWrapper, in              *)
(* src/scores/experimental/xarray_accessor.py) and of warn_type            *)
(* (src/scores/typing.py).                                                 *)
(*                                                                         *)
(* Python values are records with a `tag`; every field name carries one    *)
(* type only.  Strings the code builds (error messages, reprs, printed     *)
(* help) are sequences of string pieces, concatenated with \o.             *)
(***************************************************************************)
EXTENDS Integers, Sequences, FiniteSets, TLC

VARIABLES heap, result

vars == <<heap, result>>

(***************************************************************************)
(* Bounds of the model.                                                    *)
(***************************************************************************)
\* number of ScoresWrapper instances alive at one time
MaxProxies == 2
\* depth of Python frames after which the interpreter raises RecursionError
RecursionLimit == 4
\* number of positional arguments a caller passes to a proxy
MaxArgs == 1
\* number of members of a tuple / Union type specification
MaxSpecLen == 2

(***************************************************************************)
(* Python values.                                                          *)
(***************************************************************************)
None == [tag |-> "None"]

Ref(id) == [tag |-> "object", id |-> id]

Str(s) == [tag |-> "str", s |-> s]

\* a string the code builds, kept as its pieces
Text(pieces) == [tag |-> "text", pieces |-> pieces]

Bool(b) == [tag |-> "bool", b |-> b]

Xarray(x) == [tag |-> "xarray", x |-> x]

ProxyRef(a) == [tag |-> "ScoresWrapper", addr |-> a]

\* an attribute the ScoresWrapper class or instance defines itself
OwnAttr(a, name) == [tag |-> "own", of |-> a, name |-> name]

PyInt(n) == [tag |-> "int", n |-> n]

PyList(elems) == [tag |-> "list", elems |-> elems]

\* a list of names, as dir() returns it (sorted, so a set)
NameList(S) == [tag |-> "dir", names |-> S]

\* what a callable of the library returns: opaque, but it records the callable and
\* exactly the arguments it was given
Returned(f, pos, kw) == [tag |-> "returned", by |-> f, pos |-> pos, kw |-> kw]

(***************************************************************************)
(* Outcomes of an evaluation: a returned value or a raised exception,      *)
(* with the instance the evaluation constructs (alloc) and what it prints. *)
(***************************************************************************)
Ret(v) ==
    [kind |-> "return", value |-> v, exc |-> "", msg |-> <<>>,
     heap |-> heap, out |-> <<>>, warned |-> <<>>]

Raise(e, m) ==
    [kind |-> "raise", value |-> None, exc |-> e, msg |-> m,
     heap |-> heap, out |-> <<>>, warned |-> <<>>]

\* the addresses an instance can live at, and the ones in use
Slots == 1..MaxProxies

Addrs == {a \in Slots : heap[a].live}

\* an address no instance lives at
Free == [live |-> FALSE, has |-> {}, _obj |-> None, function |-> None]

\* a call of the class: the new instance is placed at a free address; the model
\* has none left when MaxProxies instances are alive
New(inst) ==
    IF Addrs = Slots
    THEN [Raise("MemoryError", <<>>) EXCEPT !.kind = "exhausted"]
    ELSE LET a == CHOOSE x \in Slots \ Addrs : \A y \in Slots \ Addrs : x <= y
         IN  [Ret(ProxyRef(a)) EXCEPT !.heap = [heap EXCEPT ![a] = inst]]

\* the interpreter's answer to a frame beyond the recursion limit
RecursionError == Raise("RecursionError", <<"maximum recursion depth exceeded">>)

(***************************************************************************)
(* The library namespace the proxy forwards to (`import scores`).  It is   *)
(* external to the accessor; the model holds one object of every kind the  *)
(* accessor tells apart: modules, a function, a class, a callable object   *)
(* that is false in a boolean test (an empty callable container), and      *)
(* plain string members.                                                   *)
(***************************************************************************)
ObjectIds == {"scores", "continuous", "typing", "mse", "TypeWarning", "registry"}

Kind(id) ==
    CASE id \in {"scores", "continuous", "typing"} -> "module"
      [] id = "mse" -> "function"
      [] id = "TypeWarning" -> "class"
      [] OTHER -> "instance"

\* the dotted name of the defining module
ModuleOf(id) ==
    CASE id = "scores" -> <<"scores">>
      [] id \in {"continuous", "mse", "registry"} -> <<"scores", ".", "continuous">>
      [] OTHER -> <<"scores", ".", "typing">>

\* the names the accessor is asked for in the model
Keys ==
    {"continuous", "typing", "mse", "TypeWarning", "registry", "__doc__",
     "__version__", "function", "missing"}

\* getattr(target, key) for the members that exist: the target's own namespace, then
\* the attributes every Python object of its kind has
Member(id, key) ==
    CASE id = "scores" /\ key = "continuous" -> Ref("continuous")
      [] id = "scores" /\ key = "typing" -> Ref("typing")
      [] id = "scores" /\ key = "__version__" -> Str("1.0")
      [] id = "continuous" /\ key = "mse" -> Ref("mse")
      [] id = "continuous" /\ key = "registry" -> Ref("registry")
      [] id = "typing" /\ key = "TypeWarning" -> Ref("TypeWarning")
      [] key = "__doc__" -> Str("doc:" \o id)
      [] key = "__name__" /\ Kind(id) = "module" -> Str(id)
      [] key \in {"__name__", "__qualname__"} /\ Kind(id) \in {"function", "class"} -> Str(id)
      [] OTHER -> None

\* hasattr(target, key)
HasAttr(v, key) == v.tag = "object" /\ Member(v.id, key) # None

\* getattr(target, key), where hasattr(target, key)
GetAttr(v, key) == Member(v.id, key)

\* a classification that takes every member for a callable or a namespace
WrapsEverything(v) == TRUE

\* isinstance(v, (Callable, ModuleType)): modules, functions, classes and instances
\* with a __call__; strings and None are neither
IsCallableOrModule(v) == v.tag = "object"

\* bool(v), as `function or scores` tests it: None, the empty string and an object
\* whose __len__ is 0 are false
Truthy(v) ==
    CASE v.tag = "None" -> FALSE
      [] v.tag = "str" -> v.s # ""
      [] v.tag = "object" -> v.id # "registry"
      [] OTHER -> TRUE

\* str(target) and repr(target): none of the library's objects overrides __str__, so
\* both are object.__repr__ of the kind
ReprOf(v) ==
    CASE v.tag = "None" -> <<"None">>
      [] v.tag = "str" -> <<"'", v.s, "'">>
      [] v.tag = "object" /\ Kind(v.id) = "module" -> <<"<module '", v.id, "'>">>
      [] v.tag = "object" /\ Kind(v.id) = "function" -> <<"<function ", v.id, ">">>
      [] v.tag = "object" /\ Kind(v.id) = "class" ->
            <<"<class '">> \o ModuleOf(v.id) \o <<".", v.id, "'>">>
      [] OTHER -> <<"<">> \o ModuleOf(v.id) \o <<".", "Registry", " object>">>

StrOf(v) == IF v.tag = "str" THEN <<v.s>> ELSE ReprOf(v)

\* the grave accent of the repr text (a TLA+ string cannot hold the character)
Backtick == "GRAVE ACCENT"

\* repr(key), the `{key!r}` of the messages
ReprKey(key) == <<"'", key, "'">>

\* dir(target): the names the target lists
DirOf(v) == {k \in Keys \cup {"__name__", "__qualname__"} : HasAttr(v, k)}

(***************************************************************************)
(* class ScoresWrapper.  An instance is its __dict__: `has` holds the      *)
(* names set on it, _obj and function their values.                        *)
(***************************************************************************)
\* object.__new__(ScoresWrapper): an instance whose constructor has not run
Uninitialised == [live |-> TRUE, has |-> {}, _obj |-> None, function |-> None]

\* a constructor that keeps the target under another name than `function`
InitWithoutFunction(xarray_obj, function) ==
    [live |-> TRUE, has |-> {"_obj"}, _obj |-> xarray_obj, function |-> None]

\* ScoresWrapper.__init__
__init__(xarray_obj, function) ==
    [live |-> TRUE,
     has |-> {"_obj", "function"},
     _obj |-> xarray_obj,
     function |-> IF Truthy(function) THEN function ELSE Ref("scores")]

\* the names found on the class (and on object) by normal lookup
ClassAttrs ==
    {"help", "__init__", "__getattr__", "__repr__", "__dir__", "__call__",
     "__doc__", "__class__", "__module__", "__dict__"}

\* the value normal lookup finds for a name of ClassAttrs
ClassAttr(a, key) ==
    IF key = "__doc__"
    THEN Str("Thin Wrapper Around scores packages for use with xarray objects.")
    ELSE OwnAttr(a, key)

\* a message that names the wrapper class instead of the target
MessageWithoutTarget(function, key) ==
    <<"ScoresWrapper", " has no attribute ">> \o ReprKey(key)

\* the message of the AttributeError for a name the target lacks:
\* f"{self.function} has no attribute {key!r}"
NoAttributeMessage(function, key) ==
    StrOf(function) \o <<" has no attribute ">> \o ReprKey(key)

\* a descent that retargets the instance it was asked on and returns it
RewrapInPlace(a, xarray_obj, new_func) ==
    [Ret(ProxyRef(a)) EXCEPT !.heap = [heap EXCEPT ![a] = __init__(xarray_obj, new_func)]]

\* `self.__class__(self._obj, new_func)`: a new instance, made by the constructor
Rewrap(a, xarray_obj, new_func) == New(__init__(xarray_obj, new_func))

RECURSIVE LookupAttr(_, _, _), __getattr__(_, _, _), __repr__(_, _)

\* `self.<key>` on the instance at address a, evaluated in a frame at depth d:
\* normal lookup (instance __dict__, then the class), and only when that fails
\* the call of __getattr__, in a new frame
LookupAttr(a, key, d) ==
    IF key \in heap[a].has
    THEN Ret(IF key = "_obj" THEN heap[a]._obj ELSE heap[a].function)
    ELSE IF key \in ClassAttrs
    THEN Ret(ClassAttr(a, key))
    ELSE IF d >= RecursionLimit
    THEN RecursionError
    ELSE __getattr__(a, key, d + 1)

\* f"{self}": format() calls __repr__ in a new frame
Format(a, d) == IF d >= RecursionLimit THEN RecursionError ELSE __repr__(a, d + 1)

\* ScoresWrapper.__getattr__
__getattr__(a, key, d) ==
    IF key = "function"
    THEN LET s == Format(a, d)
         IN  IF s.kind = "raise"
             THEN s
             ELSE Raise("AttributeError",
                        s.value.pieces \o <<" has no attribute ">> \o ReprKey(key))
    ELSE LET f == LookupAttr(a, "function", d)
         IN  IF f.kind = "raise"
             THEN f
             ELSE IF ~HasAttr(f.value, key)
             THEN Raise("AttributeError", NoAttributeMessage(f.value, key))
             ELSE LET new_func == GetAttr(f.value, key)
                  IN  IF ~IsCallableOrModule(new_func)
                      THEN Ret(new_func)
                      ELSE LET o == LookupAttr(a, "_obj", d)
                           IN  IF o.kind = "raise"
                               THEN o
                               ELSE Rewrap(a, o.value, new_func)

\* ScoresWrapper.__repr__
__repr__(a, d) ==
    LET f == LookupAttr(a, "function", d)
    IN  IF f.kind = "raise"
        THEN f
        ELSE IF HasAttr(f.value, "__qualname__") \/ HasAttr(f.value, "__name__")
        THEN LET name == IF HasAttr(f.value, "__qualname__")
                         THEN GetAttr(f.value, "__qualname__")
                         ELSE GetAttr(f.value, "__name__")
             IN  Ret(Text(<<"xarray wrapper for ">> \o ReprOf(name)
                          \o <<".", "\n", "Call ", Backtick, ".help()", Backtick,
                               " to see help.">>))
        ELSE Raise("AttributeError",
                   ReprOf(f.value) \o <<" has no attribute ">> \o ReprKey("__name__"))

\* the built-in help(target): pydoc prints the target's documentation and the
\* call returns None
BuiltinHelp(v) ==
    [Ret(None) EXCEPT !.out = <<"Help on ", Kind(v.id), " ", v.id, ":">>
                              \o <<GetAttr(v, "__doc__").s>>]

\* a help that returns the documentation string instead of printing it
help_returning_doc(a, d) ==
    LET f == LookupAttr(a, "function", d)
    IN  IF f.kind = "raise" THEN f ELSE Ret(GetAttr(f.value, "__doc__"))

\* ScoresWrapper.help
help(a, d) ==
    LET f == LookupAttr(a, "function", d)
    IN  IF f.kind = "raise" THEN f ELSE BuiltinHelp(f.value)

\* `target.__dir__()`: the attribute __dir__ looked up on the target and called with
\* no argument.  On a module, a function or an instance the lookup gives the method
\* bound to the target; on a class it gives object.__dir__ itself, unbound (a class's
\* own MRO is searched before its metaclass), and the call lacks its argument
CallDunderDir(v) ==
    IF Kind(v.id) = "class"
    THEN Raise("TypeError", <<"unbound method object.__dir__() needs an argument">>)
    ELSE Ret(NameList(DirOf(v)))

\* ScoresWrapper.__dir__
__dir__(a, d) ==
    LET f == LookupAttr(a, "function", d)
    IN  IF f.kind = "raise" THEN f ELSE CallDunderDir(f.value)

\* the call f(*pos, **kw) of a library object: a module is not callable, mse takes
\* the forecast and the observations, the class builds an instance from whatever it
\* is given, the empty registry has no entry to dispatch to
Invoke(f, pos, kw) ==
    CASE Kind(f.id) = "module" ->
            Raise("TypeError", <<"'module' object is not callable">>)
      [] Kind(f.id) = "function" ->
            IF Len(pos) = 2
            THEN Ret(Returned(f.id, pos, kw))
            ELSE Raise("TypeError", <<f.id, "() takes 2 positional arguments">>)
      [] Kind(f.id) = "class" -> Ret(Returned(f.id, pos, kw))
      [] OTHER -> Raise("LookupError", <<"no entry">>)

\* ScoresWrapper.__call__
__call__(a, args, kwargs, d) ==
    LET f == LookupAttr(a, "function", d)
    IN  IF f.kind = "raise"
        THEN f
        ELSE LET o == LookupAttr(a, "_obj", d)
             IN  IF o.kind = "raise"
                 THEN o
                 ELSE Invoke(f.value, <<o.value>> \o args, kwargs)

(***************************************************************************)
(* The inputs of the model.                                                *)
(***************************************************************************)
\* the xarray objects an accessor is bound to (a DataArray and a Dataset)
Objs == {Xarray("da"), Xarray("ds")}

\* what a caller passes for `function`
Functions == {None, Ref("typing")}

\* positional arguments of a call
ArgValues == {Xarray("obs")}

RECURSIVE SeqsUpTo(_, _)
SeqsUpTo(S, n) ==
    IF n = 0
    THEN {<<>>}
    ELSE LET shorter == SeqsUpTo(S, n - 1)
         IN  shorter \cup {Append(q, x) : q \in shorter, x \in S}

ArgLists == SeqsUpTo(ArgValues, MaxArgs)

\* keyword arguments of a call, as name/value pairs
KwargSets == {{}, {<<"reduce_dims", "time">>}}

(***************************************************************************)
(* The state: the ScoresWrapper instances created so far, by address, and  *)
(* the last operation with its outcome.                                    *)
(***************************************************************************)
Observed(op, a, key, args, kwargs, o) ==
    [op |-> op, self |-> a, key |-> key, args |-> args, kwargs |-> kwargs,
     kind |-> o.kind, value |-> o.value, exc |-> o.exc, msg |-> o.msg,
     out |-> o.out, warned |-> o.warned]

Init ==
    /\ heap = [a \in Slots |-> Free]
    /\ result = Observed("start", 0, "", <<>>, {}, Ret(None))

\* the address the last operation put a new instance at, 0 when it made none
Made(o) == IF o.value.tag = "ScoresWrapper" THEN o.value.addr ELSE 0

\* ScoresWrapper(xarray_obj, function), as xarray's accessor property calls it
\* (with no function) and as any caller can
Construct(xarray_obj, function) ==
    LET o == New(__init__(xarray_obj, function))
    IN  /\ o.kind # "exhausted"
        /\ heap' = o.heap
        /\ result' = Observed("construct", Made(o), "", <<>>, {}, o)

\* ScoresWrapper.__new__(ScoresWrapper): what copying or unpickling does before any
\* attribute is set
Allocate ==
    LET o == New(Uninitialised)
    IN  /\ o.kind # "exhausted"
        /\ heap' = o.heap
        /\ result' = Observed("allocate", Made(o), "", <<>>, {}, o)

\* the last reference to an instance goes away and the instance is destroyed
Release(a) ==
    /\ heap' = [heap EXCEPT ![a] = Free]
    /\ result' = Observed("release", a, "", <<>>, {}, Ret(None))

\* proxy.<key>
AccessAttr(a, key) ==
    LET o == LookupAttr(a, key, 0)
    IN  /\ o.kind # "exhausted"
        /\ heap' = o.heap
        /\ result' = Observed("getattr", a, key, <<>>, {}, o)

\* proxy(*args, **kwargs)
Call(a, args, kwargs) ==
    LET o == __call__(a, args, kwargs, 1)
    IN  /\ heap' = o.heap
        /\ result' = Observed("call", a, "", args, kwargs, o)

\* dir(proxy): the sorted result of type(proxy).__dir__(proxy)
Dir(a) ==
    LET o == __dir__(a, 1)
    IN  /\ heap' = o.heap
        /\ result' = Observed("dir", a, "", <<>>, {}, o)

\* repr(proxy)
Repr(a) ==
    LET o == __repr__(a, 1)
    IN  /\ heap' = o.heap
        /\ result' = Observed("repr", a, "", <<>>, {}, o)

\* proxy.help()
Help(a) ==
    LET o == help(a, 1)
    IN  /\ heap' = o.heap
        /\ result' = Observed("help", a, "", <<>>, {}, o)

Next ==
    \/ \E x \in Objs, f \in Functions : Construct(x, f)
    \/ Allocate
    \/ \E a \in Addrs : Release(a)
    \/ \E a \in Addrs, key \in Keys : AccessAttr(a, key)
    \/ \E a \in Addrs, args \in ArgLists, kwargs \in KwargSets : Call(a, args, kwargs)
    \/ \E a \in Addrs : Dir(a)
    \/ \E a \in Addrs : Repr(a)
    \/ \E a \in Addrs : Help(a)

Spec == Init /\ [][Next]_vars

(***************************************************************************)
(* scores.typing: warn_type.  A type specification is a class, a tuple of  *)
(* specifications or what typing.Union[...] evaluates to.                  *)
(***************************************************************************)
Type(name) == [tag |-> "type", name |-> name]

TupleOf(items) == [tag |-> "tuple", items |-> items]

\* the classes of the model; bool is the one with a base other than object
Classes == {"int", "bool", "str", "list"}

\* type(obj)
TypeOf(v) == IF v.tag = "None" THEN "NoneType" ELSE v.tag

\* type.__mro__: the class, then its bases
Mro(name) ==
    CASE name = "bool" -> {"bool", "int", "object"}
      [] OTHER -> {name, "object"}

RECURSIVE Dedup(_)
\* the parameters of a Union with the repeated ones removed, first occurrence kept
Dedup(q) ==
    IF q = <<>>
    THEN <<>>
    ELSE LET front == Dedup(SubSeq(q, 1, Len(q) - 1))
             last == q[Len(q)]
         IN  IF \E i \in DOMAIN front : front[i] = last
             THEN front
             ELSE Append(front, last)

\* typing.Union[params]: repeated parameters are dropped, a Union of one type is that
\* type, anything else is a _UnionGenericAlias holding the parameters in __args__
UnionExpr(params) ==
    LET d == Dedup(params)
    IN  IF Len(d) = 1 THEN d[1] ELSE [tag |-> "union", __args__ |-> d]

RECURSIVE IsInstance(_, _)
\* the built-in isinstance(obj, spec): for a class, whether it is in the MRO of
\* type(obj); for a tuple, whether any member accepts obj; for a typing.Union alias
\* (its __instancecheck__), as for the tuple of its __args__
IsInstance(obj, spec) ==
    CASE spec.tag = "type" -> Ret(Bool(spec.name \in Mro(TypeOf(obj))))
      [] spec.tag = "tuple" ->
            IF spec.items = <<>>
            THEN Ret(Bool(FALSE))
            ELSE LET head == IsInstance(obj, spec.items[1])
                 IN  IF head.kind = "raise" \/ head.value.b
                     THEN head
                     ELSE IsInstance(obj, TupleOf(Tail(spec.items)))
      [] OTHER -> IsInstance(obj, TupleOf(spec.__args__))

RECURSIVE ReprSpec(_), ReprItems(_)
\* repr(valid_types), the `{valid_types!r}` of the warning
ReprSpec(spec) ==
    CASE spec.tag = "type" -> <<"<class '", spec.name, "'>">>
      [] spec.tag = "tuple" ->
            IF Len(spec.items) = 1
            THEN <<"(">> \o ReprSpec(spec.items[1]) \o <<",)">>
            ELSE <<"(">> \o ReprItems(spec.items) \o <<")">>
      [] OTHER -> <<"typing.Union[">> \o ReprItems(spec.__args__) \o <<"]">>

\* the reprs of the members, separated by commas
ReprItems(items) ==
    IF items = <<>>
    THEN <<>>
    ELSE IF Len(items) = 1
    THEN ReprSpec(items[1])
    ELSE ReprSpec(items[1]) \o <<", ">> \o ReprItems(Tail(items))

\* warnings.warn(message, TypeWarning): the warning goes to the warnings stream
Warn(message) == [category |-> "TypeWarning", message |-> message]

\* a warn_type that compares type(obj) with the expected classes and so rejects an
\* instance of a subclass
warn_type_exact(obj, valid_types) ==
    LET types == IF valid_types.tag = "union"
                 THEN TupleOf(valid_types.__args__)
                 ELSE valid_types
        listed == IF types.tag = "type"
                  THEN {types.name}
                  ELSE {types.items[i].name : i \in DOMAIN types.items}
    IN  IF TypeOf(obj) \notin listed
        THEN [Ret(Bool(FALSE)) EXCEPT
                !.warned = <<Warn(<<"Expected object of type/s ">> \o ReprSpec(types)
                                  \o <<", but got ", "<class '", TypeOf(obj), "'>", ".">>)>>]
        ELSE Ret(Bool(TRUE))

\* warn_type
warn_type(obj, valid_types) ==
    LET types == IF valid_types.tag = "union"
                 THEN TupleOf(valid_types.__args__)
                 ELSE valid_types
        isinst == IsInstance(obj, types)
    IN  IF isinst.kind = "raise"
        THEN isinst
        ELSE IF ~isinst.value.b
        THEN [Ret(Bool(FALSE)) EXCEPT
                !.warned = <<Warn(<<"Expected object of type/s ">> \o ReprSpec(types)
                                  \o <<", but got ", "<class '", TypeOf(obj), "'>", ".">>)>>]
        ELSE Ret(Bool(TRUE))

\* the values checked: 5, True, "5", [1] and None
PyValues == {PyInt(5), Bool(TRUE), Str("5"), PyList(<<1>>), None}

TypeLists == SeqsUpTo({Type(c) : c \in Classes}, MaxSpecLen)

\* what a caller passes for valid_types
TypeSpecs ==
    {Type(c) : c \in Classes}
    \cup {TupleOf(q) : q \in TypeLists}
    \cup {UnionExpr(q) : q \in TypeLists \ {<<>>}}

\* warn_type(obj, valid_types), with the warnings it emits recorded
WarnType(obj, valid_types) ==
    LET o == warn_type(obj, valid_types)
    IN  /\ heap' = o.heap
        /\ result' = Observed("warn_type", 0, "", <<obj, valid_types>>, {}, o)

NextTyping == \E obj \in PyValues, valid_types \in TypeSpecs : WarnType(obj, valid_types)

SpecTyping == Init /\ [][NextTyping]_vars

(***************************************************************************)
(* Properties.                                                             *)
(***************************************************************************)
\* the instance at address a was made by the constructor
Constructed(a) == a \in Slots /\ heap[a].live /\ heap[a] # Uninitialised

\* the names normal lookup finds on the instance at a, so that __getattr__ is not called
OwnNames(a) == heap[a].has \cup ClassAttrs

\* the sequence `part` occurs in the sequence `whole`
Contains(whole, part) ==
    \E i \in 1..(Len(whole) - Len(part) + 1) : SubSeq(whole, i, i + Len(part) - 1) = part

\* two outcomes agree in what the caller sees: the value returned or the error raised
SameOutcome(o1, o2) ==
    /\ o1.kind = o2.kind
    /\ o1.value = o2.value
    /\ o1.exc = o2.exc
    /\ o1.msg = o2.msg

\* v can be called: a function, a class or an instance with a __call__
IsCallable(v) == v.tag = "object" /\ Kind(v.id) # "module"

\* the last operation asked an initialised proxy for a name __getattr__ handles
AskedGetattr ==
    /\ result.op = "getattr"
    /\ Constructed(result.self)
    /\ result.key \notin OwnNames(result.self)

\* C1: when a name resolves on a proxy's target to a callable f, calling the proxy
\* the access returned, with any arguments, has exactly the outcome of
\* f(obj, *args, **kwargs), obj being the bound data object.
C1_ChainCallForwards ==
    (/\ AskedGetattr
     /\ HasAttr(heap[result.self].function, result.key)
     /\ IsCallable(GetAttr(heap[result.self].function, result.key))
     /\ result.kind = "return"
     /\ result.value.tag = "ScoresWrapper")
    => \A args \in ArgLists, kwargs \in KwargSets :
          SameOutcome(__call__(result.value.addr, args, kwargs, 1),
                      Invoke(GetAttr(heap[result.self].function, result.key),
                             <<heap[result.self]._obj>> \o args, kwargs))

\* C2: asking a proxy for a name whose member m on the current target is callable or a
\* namespace returns a new proxy with the same bound value and with m as its target.
C2_DescentWrapsMember ==
    (/\ AskedGetattr
     /\ HasAttr(heap[result.self].function, result.key)
     /\ IsCallableOrModule(GetAttr(heap[result.self].function, result.key)))
    => /\ result.kind = "return"
       /\ result.value.tag = "ScoresWrapper"
       /\ result.value.addr # result.self
       /\ heap[result.value.addr]._obj = heap[result.self]._obj
       /\ heap[result.value.addr].function
            = GetAttr(heap[result.self].function, result.key)

\* C3 (as claimed): for every name, also one the proxy defines itself, a member of the
\* target that is neither callable nor a namespace is returned as looked up on the target.
C3_PlainMemberAnyName ==
    (/\ result.op = "getattr"
     /\ Constructed(result.self)
     /\ HasAttr(heap[result.self].function, result.key)
     /\ ~IsCallableOrModule(GetAttr(heap[result.self].function, result.key)))
    => /\ result.kind = "return"
       /\ result.value = GetAttr(heap[result.self].function, result.key)

\* C3 (amended): for a name the proxy does not define itself, a member of the target
\* that is neither callable nor a namespace is returned as looked up on the target,
\* unwrapped.
C3_PlainMemberPassesThrough ==
    (/\ AskedGetattr
     /\ HasAttr(heap[result.self].function, result.key)
     /\ GetAttr(heap[result.self].function, result.key).tag # "object")
    => /\ result.kind = "return"
       /\ result.value = GetAttr(heap[result.self].function, result.key)

C3_Witness ==
    /\ AskedGetattr
    /\ result.key = "__version__"
    /\ result.value = Str("1.0")

\* C4: asking an initialised proxy for a name that neither the proxy nor its target has
\* raises AttributeError, the message holds the target's representation and the name,
\* and no proxy is created.
C4_MissingNameRaises ==
    [][(/\ result'.op = "getattr"
        /\ Constructed(result'.self)
        /\ result'.key \notin OwnNames(result'.self)
        /\ ~HasAttr(heap[result'.self].function, result'.key))
       => /\ result'.kind = "raise"
          /\ result'.exc = "AttributeError"
          /\ Contains(result'.msg, ReprOf(heap[result'.self].function))
          /\ Contains(result'.msg, <<result'.key>>)
          /\ heap' = heap]_vars

C4_Witness ==
    /\ AskedGetattr
    /\ result.key = "missing"
    /\ heap[result.self].function = Ref("continuous")
    /\ result.exc = "AttributeError"

\* C5 (as claimed): asking a freshly constructed proxy for `function` raises
\* AttributeError.
C5_FunctionRaises ==
    (result.op = "getattr" /\ Constructed(result.self) /\ result.key = "function")
    => (result.kind = "raise" /\ result.exc = "AttributeError")

\* C5 (amended): asking a freshly constructed proxy for `function` raises nothing and
\* returns the current target the constructor stored.
C5_FunctionIsReturned ==
    (result.op = "getattr" /\ Constructed(result.self) /\ result.key = "function")
    => /\ result.kind = "return"
       /\ result.value.tag = "object"
       /\ result.value = heap[result.self].function

C5_Witness ==
    /\ result.op = "getattr"
    /\ Constructed(result.self)
    /\ result.key = "function"
    /\ result.value = Ref("scores")

\* C7: dir(proxy) never fails and equals dir(current target), whatever the target is.
C7_DirDelegates ==
    (result.op = "dir" /\ Constructed(result.self))
    => /\ result.kind = "return"
       /\ result.value = NameList(DirOf(heap[result.self].function))

\* C8 (as claimed): help returns the documentation string of the current target.
C8_HelpReturnsDoc ==
    (result.op = "help" /\ Constructed(result.self))
    => /\ result.kind = "return"
       /\ result.value = GetAttr(heap[result.self].function, "__doc__")

\* C8 (amended): help prints the documentation of the current target, through the
\* built-in help, and returns None.
C8_HelpPrintsDoc ==
    (result.op = "help" /\ Constructed(result.self))
    => /\ result.kind = "return"
       /\ result.value = None
       /\ Contains(result.out, <<GetAttr(heap[result.self].function, "__doc__").s>>)

C8_Witness ==
    /\ result.op = "help"
    /\ Constructed(result.self)
    /\ heap[result.self].function = Ref("mse")
    /\ result.out # <<>>

\* C9: no operation changes an existing proxy: every live instance keeps its bound
\* value and its target until it is destroyed, and a proxy returned by a descent is an
\* instance that did not exist before.
C9_ProxiesImmutable ==
    [][/\ \A a \in Slots :
            (heap[a].live /\ ~(result'.op = "release" /\ result'.self = a))
            => heap'[a] = heap[a]
       /\ (result'.op = "getattr" /\ result'.value.tag = "ScoresWrapper")
            => (~heap[result'.value.addr].live /\ heap'[result'.value.addr].live)]_vars

C9_Witness ==
    /\ result.op = "getattr"
    /\ result.value.tag = "ScoresWrapper"
    /\ heap[result.self].function = Ref("continuous")
    /\ heap[result.value.addr].function = Ref("mse")

\* C10: asking a proxy whose constructor has not run for any name ends with
\* AttributeError and no other error.
C10_UninitialisedRaisesAttributeError ==
    (/\ result.op = "getattr"
     /\ result.self \in Slots
     /\ heap[result.self] = Uninitialised
     /\ result.key \notin ClassAttrs)
    => (result.kind = "raise" /\ result.exc = "AttributeError")

\* the classes a type specification lists
Constituents(spec) ==
    CASE spec.tag = "type" -> {spec.name}
      [] spec.tag = "tuple" -> {spec.items[i].name : i \in DOMAIN spec.items}
      [] OTHER -> {spec.__args__[i].name : i \in DOMAIN spec.__args__}

\* class t is class u or a subclass of it
IsSubtype(t, u) == t = u \/ (t = "bool" /\ u = "int")

\* C6: warn_type(v, T) returns True exactly when the type of v is one of, or a subtype
\* of, the types of T; it emits one TypeWarning when it returns False and none when it
\* returns True, never raises, and treats Union[A, B] as the tuple (A, B).
C6_WarnTypeIsMembership ==
    result.op = "warn_type"
    => LET v == result.args[1]
           T == result.args[2]
           member == \E u \in Constituents(T) : IsSubtype(TypeOf(v), u)
           asTuple == warn_type(v, TupleOf(T.__args__))
       IN  /\ result.kind = "return"
           /\ result.value = Bool(member)
           /\ member => result.warned = <<>>
           /\ ~member => (/\ Len(result.warned) = 1
                          /\ result.warned[1].category = "TypeWarning")
           /\ T.tag = "union" => (/\ result.kind = asTuple.kind
                                  /\ result.value = asTuple.value
                                  /\ result.warned = asTuple.warned)

C6_Witness ==
    /\ result.op = "warn_type"
    /\ result.args[1] = Bool(TRUE)
    /\ result.args[2].tag = "union"
    /\ Type("int") \in {result.args[2].__args__[i] : i \in DOMAIN result.args[2].__args__}
    /\ result.value = Bool(TRUE)

====
